---- MODULE Spec2Model ----
(***************************************************************************)
(* A model of the exact-rational matrix engine of aoclib-rs                *)
(* (src/src/matrix.rs): RowVec, Matrix, the arithmetic operations and the  *)
(* Gaussian-elimination pipeline (leader_sort, eliminate, ref, rref).      *)
(*                                                                         *)
(* A rational (num_rational::Rational64) is a pair <<n, d>> in lowest      *)
(* terms with d > 0.  A RowVec is a sequence of rationals and a Matrix a   *)
(* sequence of RowVecs.  Row and column indices are 0-based as in the      *)
(* source; At and At2 translate to TLA+'s 1-based sequences.  Numerators   *)
(* and denominators stay far below the i64 range in every run, so the      *)
(* arithmetic is exact and i64 overflow is outside the model.              *)
(*                                                                         *)
(* The module also models BinarySearchableVec with the binary_search loop  *)
(* (src/src/binary_search.rs) and the dijkstra loop of the Dijkstrable     *)
(* trait over small graphs (src/src/dijkstra.rs), each pass of a loop      *)
(* being one step; the Trie of src/src/trie.rs, a word being a sequence of *)
(* chars each with its UTF-8 length; and the selector and permutation      *)
(* iterators of src/src/iter.rs with inc_selector and fold_while of        *)
(* src/src/lib.rs, each next() being one step.                             *)
(***************************************************************************)
EXTENDS Integers, Sequences, FiniteSets, TLC

VARIABLES
    m,       \* the object `self` the operations act on: a Matrix, a RowVec in SpecRow
    rhs,     \* the second operand of add_assign / add / matrix_mul
    op,      \* name of the last operation called on m ("new" after construction)
    prevop,  \* name of the operation called before the last one
    pre,     \* value of m when the last operation was called
    ret,     \* what the last operation returned: [kind, val]
    args,    \* arguments of the last operation (row / column indices)
    steps,   \* number of operations called so far
    bs,      \* a BinarySearchableVec and the locals of its binary_search call
    dk,      \* a Dijkstrable object and the locals of its dijkstra call
    tr,      \* a Trie and the words handed to its insert
    it       \* an iterator of iter.rs or a selector slice, and what it has yielded

matrix_vars == <<m, rhs, op, prevop, pre, ret, args, steps>>
vars == <<m, rhs, op, prevop, pre, ret, args, steps, bs, dk, tr, it>>

\* ------------------------------------------------------------------ bounds
MaxH == 3        \* largest height of a matrix built for reduction or elimination
MaxW == 3        \* largest width of a matrix built for reduction
MaxElW == 2      \* largest width of a matrix built for a single elimination
MaxArH == 2      \* largest height of an operand built for arithmetic
MaxArW == 2      \* largest width of a left operand built for arithmetic
MaxRhsW == 1     \* largest width of a right operand built for arithmetic
MaxSteps == 2    \* operations called in one run
MaxRowLen == 3   \* largest length of a RowVec built on its own
MaxVecLen == 4   \* largest length of a vector handed to BinarySearchableVec
MaxElem == 5     \* largest element of such a vector; targets are 0..MaxElem + 1
MaxPoints == 3   \* points of a graph handed to dijkstra
MaxWordLen == 2  \* most chars of a word handed to Trie::insert
MaxInserts == 3  \* insert calls on one Trie
MaxPermLen == 4  \* longest vector handed to permutation_iter_copy
MaxSelLen == 4   \* longest selector slice
MaxSquare == 2   \* largest side of the square matrices enumerated for rref

\* ------------------------------------------------- Rational64 arithmetic
Abs(x) == IF x < 0 THEN -x ELSE x

RECURSIVE Gcd(_, _)
Gcd(a, b) == IF b = 0 THEN a ELSE Gcd(b, a % b)

\* Ratio::new: lowest terms, sign carried by the numerator.  d # 0.
Ratio(n, d) ==
    LET g == Gcd(Abs(n), Abs(d))
        s == IF d < 0 THEN -1 ELSE 1
    IN  <<(s * n) \div g, (s * d) \div g>>

ZERO == <<0, 1>>
ONE == <<1, 1>>
from_integer(i) == <<i, 1>>

RAdd(a, b) == Ratio(a[1] * b[2] + b[1] * a[2], a[2] * b[2])
RMul(a, b) == Ratio(a[1] * b[1], a[2] * b[2])
RNeg(a) == <<-a[1], a[2]>>
\* a / b and b.recip() panic in the library when b is zero: callers test first
RDiv(a, b) == Ratio(a[1] * b[2], a[2] * b[1])
recip(a) == Ratio(a[2], a[1])

\* ----------------------------------------------------------------- RowVec
None == <<>>
Some(x) == <<x>>

At(row, i) == row[i + 1]
At2(mat, r, c) == mat[r + 1][c + 1]

RowVec_zeros(len) == [i \in 1..len |-> ZERO]

\* add_assign adding over the entries the two rows share, without a test of
\* the lengths
RowVec_add_assign_zip(self, other) ==
    [ok |-> TRUE,
     row |-> [i \in 1..Len(self) |->
                 IF i <= Len(other) THEN RAdd(self[i], other[i]) ELSE self[i]]]

\* RowVec::add_assign: checks the lengths before touching self
RowVec_add_assign(self, other) ==
    IF Len(self) # Len(other)
    THEN [ok |-> FALSE, row |-> self]
    ELSE [ok |-> TRUE, row |-> [i \in 1..Len(self) |-> RAdd(self[i], other[i])]]

\* impl MulAssign<R64> for RowVec
RowVec_mul_assign(self, factor) == [i \in 1..Len(self) |-> RMul(self[i], factor)]

\* RowVec::leader_col: position of the first non-zero entry
leader_col(self) ==
    LET nz == {i \in 1..Len(self) : self[i] # ZERO}
    IN  IF nz = {} THEN None
        ELSE Some((CHOOSE i \in nz : \A j \in nz : i <= j) - 1)

\* RowVec::normalize scaling by the leader instead of its reciprocal
RowVec_normalize_by_leader(self) ==
    LET lc == leader_col(self)
    IN  IF lc = None THEN self
        ELSE IF At(self, lc[1]) # ONE
             THEN RowVec_mul_assign(self, At(self, lc[1]))
             ELSE self

\* normalize setting the leader to 1 and leaving the other entries alone
RowVec_normalize_leader_only(self) ==
    LET lc == leader_col(self)
    IN  IF lc = None THEN self
        ELSE [self EXCEPT ![lc[1] + 1] = ONE]

\* RowVec::normalize
RowVec_normalize(self) ==
    LET lc == leader_col(self)
    IN  IF lc = None THEN self
        ELSE IF At(self, lc[1]) # ONE
             THEN RowVec_mul_assign(self, recip(At(self, lc[1])))
             ELSE self

\* ----------------------------------------------- Matrix: elimination steps
\* Outcome of a call that returns () or panics: the rows it leaves behind.
Done(rows) == [rows |-> rows, panic |-> FALSE]
Panicked(rows) == [rows |-> rows, panic |-> TRUE]

height(self) == Len(self)
width(self) == IF Len(self) = 0 THEN 0 ELSE Len(self[1])
is_empty(self) == Len(self) = 0

\* The closure handed to sort_by in leader_sort, scanning a from column i on.
RECURSIVE leader_cmp_from(_, _, _)
leader_cmp_from(a, b, i) ==
    IF i >= Len(a) THEN "Equal"
    ELSE IF At(a, i) = ZERO /\ At(b, i) # ZERO THEN "Greater"
    ELSE IF At(b, i) = ZERO /\ At(a, i) # ZERO THEN "Less"
    ELSE leader_cmp_from(a, b, i + 1)

\* the comparator with its two rows exchanged
leader_cmp_reversed(a, b) == leader_cmp_from(b, a, 0)

leader_cmp(a, b) == leader_cmp_from(a, b, 0)

\* an insertion that puts a row in front of the rows it compares Equal to
RECURSIVE insert_before_equals(_, _)
insert_before_equals(sorted, x) ==
    IF sorted = <<>> THEN <<x>>
    ELSE IF leader_cmp(x, sorted[Len(sorted)]) # "Greater"
         THEN Append(insert_before_equals(SubSeq(sorted, 1, Len(sorted) - 1), x),
                     sorted[Len(sorted)])
         ELSE Append(sorted, x)

\* slice::sort_by is a stable sort: a row goes behind every row already
\* placed that does not compare Greater than it.
RECURSIVE stable_insert(_, _)
stable_insert(sorted, x) ==
    IF sorted = <<>> THEN <<x>>
    ELSE IF leader_cmp(x, sorted[Len(sorted)]) = "Less"
         THEN Append(stable_insert(SubSeq(sorted, 1, Len(sorted) - 1), x),
                     sorted[Len(sorted)])
         ELSE Append(sorted, x)

\* a sort that keeps one row of those that compare Equal
RECURSIVE sort_from_dedup(_, _, _)
sort_from_dedup(sorted, rows, i) ==
    IF i > Len(rows) THEN sorted
    ELSE IF \E k \in 1..Len(sorted) : leader_cmp(rows[i], sorted[k]) = "Equal"
         THEN sort_from_dedup(sorted, rows, i + 1)
         ELSE sort_from_dedup(stable_insert(sorted, rows[i]), rows, i + 1)

RECURSIVE sort_from(_, _, _)
sort_from(sorted, rows, i) ==
    IF i > Len(rows) THEN sorted
    ELSE sort_from(stable_insert(sorted, rows[i]), rows, i + 1)

\* Matrix::leader_sort
leader_sort(self) == sort_from(<<>>, self, 1)

\* eliminate with the factor's sign dropped
eliminate_unnegated(self, selected_row, other_row, col) ==
    IF At2(self, other_row, col) = ZERO THEN Done(self)
    ELSE IF At2(self, selected_row, col) = ZERO THEN Panicked(self)
    ELSE LET factor == RDiv(At2(self, other_row, col), At2(self, selected_row, col))
             term == RowVec_mul_assign(self[selected_row + 1], factor)
             sum == RowVec_add_assign(self[other_row + 1], term)
         IN  IF sum.ok
             THEN Done([self EXCEPT ![other_row + 1] = sum.row])
             ELSE Panicked(self)

\* eliminate returning early on a zero pivot instead of dividing by it
eliminate_skip_zero_pivot(self, selected_row, other_row, col) ==
    IF At2(self, other_row, col) = ZERO \/ At2(self, selected_row, col) = ZERO
    THEN Done(self)
    ELSE LET factor == RDiv(RNeg(At2(self, other_row, col)),
                            At2(self, selected_row, col))
             term == RowVec_mul_assign(self[selected_row + 1], factor)
             sum == RowVec_add_assign(self[other_row + 1], term)
         IN  IF sum.ok
             THEN Done([self EXCEPT ![other_row + 1] = sum.row])
             ELSE Panicked(self)

\* Matrix::eliminate.  The division panics when the selected entry is zero;
\* the unwrap panics when the row addition returns Err.
eliminate(self, selected_row, other_row, col) ==
    IF At2(self, other_row, col) = ZERO THEN Done(self)
    ELSE IF At2(self, selected_row, col) = ZERO THEN Panicked(self)
    ELSE LET factor == RDiv(RNeg(At2(self, other_row, col)),
                            At2(self, selected_row, col))
             term == RowVec_mul_assign(self[selected_row + 1], factor)
             sum == RowVec_add_assign(self[other_row + 1], term)
         IN  IF sum.ok
             THEN Done([self EXCEPT ![other_row + 1] = sum.row])
             ELSE Panicked(self)

\* for i in lo..hi { self.eliminate(row, i, col) }
RECURSIVE eliminate_range(_, _, _, _, _)
eliminate_range(st, row, col, i, hi) ==
    IF st.panic \/ i >= hi THEN st
    ELSE eliminate_range(eliminate(st.rows, row, i, col), row, col, i + 1, hi)

\* for i in lo..hi { self.eliminate(i, row, col) }: the two row arguments of
\* eliminate exchanged
RECURSIVE eliminate_range_swapped(_, _, _, _, _)
eliminate_range_swapped(st, row, col, i, hi) ==
    IF st.panic \/ i >= hi THEN st
    ELSE eliminate_range_swapped(eliminate(st.rows, i, row, col), row, col, i + 1, hi)

\* eliminate_below_leader passing the rows below as the selected row
eliminate_below_leader_swapped(self, row) ==
    LET lc == leader_col(self[row + 1])
    IN  IF lc = None THEN Done(self)
        ELSE eliminate_range_swapped(Done(self), row, lc[1], row + 1, Len(self))

\* Matrix::eliminate_below_leader
eliminate_below_leader(self, row) ==
    LET lc == leader_col(self[row + 1])
    IN  IF lc = None THEN Done(self)
        ELSE eliminate_range(Done(self), row, lc[1], row + 1, Len(self))

\* eliminate_above_leader stopping one row short of `row`
eliminate_above_leader_short(self, row) ==
    LET lc == leader_col(self[row + 1])
    IN  IF lc = None THEN Done(self)
        ELSE eliminate_range(Done(self), row, lc[1], 0, row - 1)

\* eliminate_above_leader running over the selected row as well
eliminate_above_leader_inclusive(self, row) ==
    LET lc == leader_col(self[row + 1])
    IN  IF lc = None THEN Done(self)
        ELSE eliminate_range(Done(self), row, lc[1], 0, row + 1)

\* Matrix::eliminate_above_leader
eliminate_above_leader(self, row) ==
    LET lc == leader_col(self[row + 1])
    IN  IF lc = None THEN Done(self)
        ELSE eliminate_range(Done(self), row, lc[1], 0, row)

\* normalize dividing the first row only
Matrix_normalize_first_row(self) ==
    [i \in 1..Len(self) |-> IF i = 1 THEN RowVec_normalize(self[i]) ELSE self[i]]

\* Matrix::normalize
Matrix_normalize(self) == [i \in 1..Len(self) |-> RowVec_normalize(self[i])]

\* for row in 0..self.0.len() { self.eliminate_below_leader(row) }
RECURSIVE sweep_below(_, _)
sweep_below(st, row) ==
    IF st.panic \/ row >= Len(st.rows) THEN st
    ELSE sweep_below(eliminate_below_leader(st.rows, row), row + 1)

\* for row in 0..self.0.len() { self.eliminate_above_leader(row) }
RECURSIVE sweep_above(_, _)
sweep_above(st, row) ==
    IF st.panic \/ row >= Len(st.rows) THEN st
    ELSE sweep_above(eliminate_above_leader(st.rows, row), row + 1)

\* ref computing its last row index as len() - 1, which underflows on the
\* empty matrix
ref_last_index(self) ==
    IF Len(self) = 0 THEN Panicked(self)
    ELSE LET swept == sweep_below(Done(leader_sort(self)), 0)
         IN  IF swept.panic THEN swept ELSE Done(leader_sort(swept.rows))

\* ref without the second leader_sort
ref_single_sort(self) == sweep_below(Done(leader_sort(self)), 0)

\* Matrix::ref
ref(self) ==
    LET swept == sweep_below(Done(leader_sort(self)), 0)
    IN  IF swept.panic THEN swept ELSE Done(leader_sort(swept.rows))

\* rref without the final normalize
rref_without_normalize(self) ==
    LET echelon == ref(self)
        swept == IF echelon.panic THEN echelon ELSE sweep_above(echelon, 0)
    IN  IF swept.panic THEN swept ELSE Done(leader_sort(swept.rows))

\* rref without the eliminations above the leaders
rref_without_sweep_above(self) ==
    LET echelon == ref(self)
    IN  IF echelon.panic THEN echelon
        ELSE Done(Matrix_normalize(leader_sort(echelon.rows)))

\* Matrix::rref
rref(self) ==
    LET echelon == ref(self)
        swept == IF echelon.panic THEN echelon ELSE sweep_above(echelon, 0)
    IN  IF swept.panic THEN swept
        ELSE Done(Matrix_normalize(leader_sort(swept.rows)))

\* ------------------------------------------------------ Matrix: arithmetic
Matrix_empty == <<>>

\* zeros testing only the number of rows
Matrix_zeros_rows_only(rows, cols) ==
    IF rows = 0 THEN Matrix_empty
    ELSE [r \in 1..rows |-> RowVec_zeros(cols)]

\* Matrix::zeros
Matrix_zeros(rows, cols) ==
    IF rows = 0 \/ cols = 0 THEN Matrix_empty
    ELSE [r \in 1..rows |-> RowVec_zeros(cols)]

\* for i in 0..self.0.len() { self.0[i].add_assign(&rhs.0[i])?; }
RECURSIVE add_rows_from(_, _, _)
add_rows_from(self, other, i) ==
    IF i >= Len(self) THEN [kind |-> "Ok", rows |-> self]
    ELSE LET sum == RowVec_add_assign(self[i + 1], other[i + 1])
         IN  IF sum.ok
             THEN add_rows_from([self EXCEPT ![i + 1] = sum.row], other, i + 1)
             ELSE [kind |-> "Err", rows |-> self]

\* add_assign testing for empty rows before it compares the widths
Matrix_add_assign_empty_first(self, other) ==
    IF Len(self) # Len(other) THEN [kind |-> "Err", rows |-> self]
    ELSE IF Len(self) = 0 THEN [kind |-> "Ok", rows |-> self]
    ELSE IF Len(self[1]) = 0 THEN [kind |-> "Ok", rows |-> self]
    ELSE IF Len(self[1]) # Len(other[1]) THEN [kind |-> "Err", rows |-> self]
    ELSE add_rows_from(self, other, 0)

\* Matrix::add_assign
Matrix_add_assign(self, other) ==
    IF Len(self) # Len(other) THEN [kind |-> "Err", rows |-> self]
    ELSE IF Len(self) = 0 THEN [kind |-> "Ok", rows |-> self]
    ELSE IF Len(self[1]) # Len(other[1]) THEN [kind |-> "Err", rows |-> self]
    ELSE IF Len(self[1]) = 0 THEN [kind |-> "Ok", rows |-> self]
    ELSE add_rows_from(self, other, 0)

\* add handing back the clone without the sum
Matrix_add_clone_only(self, other) ==
    LET out == Matrix_add_assign(self, other)
    IN  IF out.kind = "Ok" THEN [kind |-> "Ok", val |-> self]
        ELSE [kind |-> "Err", val |-> Matrix_empty]

\* Matrix::add: add_assign on a clone of self; `?` hands an Err on
Matrix_add(self, other) ==
    LET out == Matrix_add_assign(self, other)
    IN  IF out.kind = "Ok" THEN [kind |-> "Ok", val |-> out.rows]
        ELSE [kind |-> "Err", val |-> Matrix_empty]

\* for k in 0..self.0[0].len() { new.0[j][i] += self.0[j][k] * rhs.0[k][i]; }
RECURSIVE mul_accumulate(_, _, _, _, _, _)
mul_accumulate(acc, self, other, j, i, k) ==
    IF k >= Len(self[1]) THEN acc
    ELSE mul_accumulate(RAdd(acc, RMul(At2(self, j, k), At2(other, k, i))),
                        self, other, j, i, k + 1)

\* matrix_mul whose k loop starts at 1
matrix_mul_skip_first(self, other) ==
    IF is_empty(self) /\ is_empty(other) THEN [kind |-> "Ok", val |-> Matrix_empty]
    ELSE IF is_empty(self) THEN [kind |-> "Err", val |-> Matrix_empty]
    ELSE IF Len(self[1]) # Len(other) THEN [kind |-> "Err", val |-> Matrix_empty]
    ELSE IF Len(other) = 0 THEN [kind |-> "Panic", val |-> Matrix_empty]
    ELSE LET new == Matrix_zeros(Len(self), Len(other[1]))
         IN  [kind |-> "Ok",
              val |-> [j \in 1..Len(new) |-> [i \in 1..Len(new[j]) |->
                          mul_accumulate(new[j][i], self, other, j - 1, i - 1, 1)]]]

\* matrix_mul assigning each product (=) instead of accumulating it (+=)
matrix_mul_overwrite(self, other) ==
    IF is_empty(self) /\ is_empty(other) THEN [kind |-> "Ok", val |-> Matrix_empty]
    ELSE IF is_empty(self) THEN [kind |-> "Err", val |-> Matrix_empty]
    ELSE IF Len(self[1]) # Len(other) THEN [kind |-> "Err", val |-> Matrix_empty]
    ELSE IF Len(other) = 0 THEN [kind |-> "Panic", val |-> Matrix_empty]
    ELSE LET new == Matrix_zeros(Len(self), Len(other[1]))
         IN  [kind |-> "Ok",
              val |-> [j \in 1..Len(new) |-> [i \in 1..Len(new[j]) |->
                          RMul(self[j][Len(self[1])], other[Len(self[1])][i])]]]

\* Matrix::matrix_mul.  rhs.0[0] is an out-of-bounds index when rhs has no rows.
matrix_mul(self, other) ==
    IF is_empty(self) /\ is_empty(other) THEN [kind |-> "Ok", val |-> Matrix_empty]
    ELSE IF is_empty(self) THEN [kind |-> "Err", val |-> Matrix_empty]
    ELSE IF Len(self[1]) # Len(other) THEN [kind |-> "Err", val |-> Matrix_empty]
    ELSE IF Len(other) = 0 THEN [kind |-> "Panic", val |-> Matrix_empty]
    ELSE LET new == Matrix_zeros(Len(self), Len(other[1]))
         IN  [kind |-> "Ok",
              val |-> [j \in 1..Len(new) |-> [i \in 1..Len(new[j]) |->
                          mul_accumulate(new[j][i], self, other, j - 1, i - 1, 0)]]]

\* impl MulAssign<R64> for Matrix
Matrix_mul_assign(self, factor) ==
    [i \in 1..Len(self) |-> RowVec_mul_assign(self[i], factor)]

\* append_row extending the last row by the entries instead of pushing a row
append_row_into_last(self, r) ==
    IF Len(self) = 0 THEN <<r>>
    ELSE [self EXCEPT ![Len(self)] = self[Len(self)] \o r]

\* Matrix::append_row
append_row(self, r) == Append(self, r)

\* Matrix::remove_row: Vec::remove shifts the rows behind i up
remove_row(self, i) ==
    [k \in 1..(Len(self) - 1) |-> IF k <= i THEN self[k] ELSE self[k + 1]]

\* ---------------------------------------------------------- state machine
\* Entries of the matrices that are built exhaustively
Vals == {from_integer(0), from_integer(1)}

\* Rectangular matrices (Matrix::new's precondition) of at most h rows and
\* w columns; rows of width 0 are included.
Matrices(h, w) ==
    UNION {[1..r -> [1..c -> Vals]] : r \in 0..h, c \in 0..w}

Unit == [kind |-> "Ok", val |-> Matrix_empty]
Panic == [kind |-> "Panic", val |-> Matrix_empty]

\* A panic ends the run
Running == ret.kind # "Panic" /\ steps < MaxSteps

\* The operands are as constructed: no operation was called on them yet
Fresh == op = "new"

\* Objects of the other modules that a run does not build
Absent == [pc |-> "absent"]

\* self and other are built and no operation was called on them
Operands(self, other) ==
    /\ m = self
    /\ rhs = other
    /\ op = "new"
    /\ prevop = "new"
    /\ pre = self
    /\ ret = Unit
    /\ args = <<>>
    /\ steps = 0

Constructed(self, other) ==
    /\ Operands(self, other)
    /\ bs = Absent
    /\ dk = Absent
    /\ tr = Absent
    /\ it = Absent

\* A call on m that returns () or panics
Call(name, out, a) ==
    /\ m' = out.rows
    /\ ret' = IF out.panic THEN Panic ELSE Unit
    /\ op' = name
    /\ prevop' = op
    /\ pre' = m
    /\ args' = a
    /\ steps' = steps + 1
    /\ UNCHANGED <<rhs, bs, dk, tr, it>>

\* m.rref()
DoRref == Running /\ Call("rref", rref(m), <<>>)

\* m.ref()
DoRef == Running /\ Call("ref", ref(m), <<>>)

\* m.eliminate(selected_row, other_row, leader_col), indices in range
DoEliminate ==
    /\ Fresh
    /\ \E s \in 0..(height(m) - 1), o \in 0..(height(m) - 1), c \in 0..(width(m) - 1) :
           Call("eliminate", eliminate(m, s, o, c), <<s, o, c>>)

\* m.add_assign(&rhs)
AddAssignCall ==
    /\ LET out == Matrix_add_assign(m, rhs)
       IN  /\ m' = out.rows
           /\ ret' = [kind |-> out.kind, val |-> Matrix_empty]
    /\ op' = "add_assign"
    /\ prevop' = op
    /\ pre' = m
    /\ args' = <<>>
    /\ steps' = steps + 1
    /\ UNCHANGED <<rhs, bs, dk, tr, it>>

DoAddAssign == Fresh /\ AddAssignCall

\* m.add(&rhs): m is only read
DoAdd ==
    /\ Fresh
    /\ ret' = Matrix_add(m, rhs)
    /\ op' = "add"
    /\ prevop' = op
    /\ pre' = m
    /\ args' = <<>>
    /\ steps' = steps + 1
    /\ UNCHANGED <<m, rhs, bs, dk, tr, it>>

\* m.matrix_mul(&rhs): m is only read
DoMatrixMul ==
    /\ Fresh
    /\ ret' = matrix_mul(m, rhs)
    /\ op' = "matrix_mul"
    /\ prevop' = op
    /\ pre' = m
    /\ args' = <<>>
    /\ steps' = steps + 1
    /\ UNCHANGED <<m, rhs, bs, dk, tr, it>>

\* m.leader_sort()
LeaderSortCall == Call("leader_sort", Done(leader_sort(m)), <<>>)

\* m.normalize()
NormalizeCall == Call("normalize", Done(Matrix_normalize(m)), <<>>)

DoLeaderSort == Fresh /\ LeaderSortCall

DoNormalize == Fresh /\ NormalizeCall

\* m *= factor
Factors == {ZERO, Ratio(-1, 2), from_integer(3)}

MulAssignCall ==
    \E f \in Factors : Call("mul_assign", Done(Matrix_mul_assign(m, f)), <<f>>)

\* m.eliminate(selected_row, other_row, leader_col) with a non-zero pivot
EliminateNonZeroCall ==
    \E s \in 0..(height(m) - 1), o \in 0..(height(m) - 1), c \in 0..(width(m) - 1) :
        /\ At2(m, s, c) # ZERO
        /\ Call("eliminate", eliminate(m, s, o, c), <<s, o, c>>)

\* m.eliminate_below_leader(row)
EliminateBelowLeaderCall ==
    \E r \in 0..(height(m) - 1) :
        Call("eliminate_below_leader", eliminate_below_leader(m, r), <<r>>)

\* m.eliminate_above_leader(row)
EliminateAboveLeaderCall ==
    \E r \in 0..(height(m) - 1) :
        Call("eliminate_above_leader", eliminate_above_leader(m, r), <<r>>)

\* m.remove_row(i) with a valid index
RemoveRowCall ==
    \E i \in 0..(height(m) - 1) : Call("remove_row", Done(remove_row(m, i)), <<i>>)

\* Rows of the matrix's width that are appended
RowsToAppend(w) == {RowVec_zeros(w), [i \in 1..w |-> from_integer(i)]}

\* m.append_row(r) with a row as long as the matrix is wide
AppendRowCall ==
    \E r \in RowsToAppend(width(m)) : Call("append_row", Done(append_row(m, r)), <<r>>)

\* m = Matrix::zeros(rows, cols)
DoZeros ==
    /\ Fresh
    /\ \E rows \in 0..MaxH, cols \in 0..MaxW :
           Call("zeros", Done(Matrix_zeros(rows, cols)), <<rows, cols>>)

\* m.add_assign(&rhs) on a RowVec m
DoRowAddAssign ==
    /\ Fresh
    /\ LET out == RowVec_add_assign(m, rhs)
       IN  /\ m' = out.row
           /\ ret' = [kind |-> IF out.ok THEN "Ok" ELSE "Err", val |-> Matrix_empty]
    /\ op' = "RowVec::add_assign"
    /\ prevop' = op
    /\ pre' = m
    /\ args' = <<>>
    /\ steps' = steps + 1
    /\ UNCHANGED <<rhs, bs, dk, tr, it>>

\* m.normalize() on a RowVec m
DoRowNormalize == Fresh /\ Call("RowVec::normalize", Done(RowVec_normalize(m)), <<>>)

\* Matrix::from_int_vecs
FromInts(rows) == [r \in 1..Len(rows) |-> [c \in 1..Len(rows[r]) |-> from_integer(rows[r][c])]]

\* Matrices with negative, large and fractional entries, most of them taken
\* from the repository's tests
TestMatrices ==
    { FromInts(<<<<1, 2, 3>>, <<4, 5, 6>>, <<7, 8, 9>>>>),
      FromInts(<<<<0, 2, 3, 4>>, <<2, 4, 6, 3>>>>),
      FromInts(<<<<0, 1, 2>>, <<3, 0, 5>>>>),
      FromInts(<<<<0, 1, 2>>, <<3, 4, 5>>>>),
      FromInts(<<<<1, 1, 1>>, <<1, 1, 2>>, <<1, 2, 3>>>>),
      FromInts(<<<<-2, 3>>, <<4, -6>>, <<-1, -5>>>>),
      FromInts(<<<<0, -3, 2>>, <<-1, 2, 7>>, <<5, 0, -4>>>>),
      << <<Ratio(0, 1), Ratio(3, 4), Ratio(3, 2)>>,
         <<Ratio(4, 1), Ratio(5, 1), Ratio(6, 1)>>,
         <<Ratio(0, 1), Ratio(-3, 4), Ratio(-3, 2)>> >>,
      << <<Ratio(-1, 2), Ratio(2, 3)>>, <<Ratio(5, 7), Ratio(-1, 3)>> >>,
      FromInts(<<<<0, 2, 3, 4>>, <<2, 3, 6, 3>>, <<0, 0, 4, 5>>, <<0, 0, 0, 3>>,
                 <<0, 5, 6, 3>>, <<0, 0, 0, 0>>, <<3, 4, 2, 6>>>>) }

TestPairs ==
    { <<FromInts(<<<<3, 4>>, <<7, 2>>, <<1, 5>>>>),
        FromInts(<<<<5, 6, 2, 3>>, <<8, 3, 9, 7>>>>)>>,
      <<FromInts(<<<<3, 5, 7>>, <<8, 2, 3>>, <<9, 2, 3>>>>),
        FromInts(<<<<8, 2, 4>>, <<1, 6, 7>>, <<2, 3, 5>>>>)>>,
      <<FromInts(<<<<3, 5>>, <<8, 2>>>>),
        FromInts(<<<<8, 2, 4>>, <<1, 6, 7>>>>)>>,
      <<FromInts(<<<<-3, 5>>, <<8, -2>>>>),
        FromInts(<<<<3, -5>>, <<-7, 2>>>>)>>,
      <<FromInts(<<<<-3, 5>>, <<8, -2>>>>),
        FromInts(<<<<1, 0>>, <<0, 1>>>>)>>,
      <<FromInts(<<<<1, 2, 3>>, <<4, 5, 6>>>>),
        FromInts(<<<<1, 0, 0>>, <<0, 1, 0>>, <<0, 0, 1>>>>)>>,
      <<FromInts(<<<<3, 5>>, <<8, 2>>>>),
        FromInts(<<<<8>>, <<1>>>>)>>,
      << << <<Ratio(1, 2), Ratio(-2, 3)>>, <<Ratio(3, 4), Ratio(5, 1)>> >>,
         << <<Ratio(1, 2), Ratio(2, 3)>>, <<Ratio(-3, 4), Ratio(1, 6)>> >> >> }

\* Reduction: up to MaxSteps calls of ref and rref on every small matrix
InitReduce ==
    \E self \in Matrices(MaxH, MaxW) \cup TestMatrices : Constructed(self, Matrix_empty)

NextReduce == DoRref \/ DoRef

SpecReduce == InitReduce /\ [][NextReduce]_vars

\* One elimination step on every small matrix
InitElim ==
    \E self \in Matrices(MaxH, MaxElW) \cup TestMatrices : Constructed(self, Matrix_empty)

NextElim == DoEliminate

SpecElim == InitElim /\ [][NextElim]_vars

\* One arithmetic operation on every pair of small matrices
InitArith ==
    \/ \E self \in Matrices(MaxArH, MaxArW), other \in Matrices(MaxArH, MaxRhsW) :
           Constructed(self, other)
    \/ \E p \in TestPairs : Constructed(p[1], p[2])

NextArith == DoAddAssign \/ DoAdd \/ DoMatrixMul

SpecArith == InitArith /\ [][NextArith]_vars

\* One row-ordering or scaling call on every small matrix
\* Matrices whose non-zero entries are the 1-based number of their row, so
\* that rows with their non-zero entries in the same columns differ
TaggedMatrices ==
    {[r \in 1..Len(p) |-> [c \in 1..Len(p[r]) |->
          IF p[r][c] = ZERO THEN ZERO ELSE from_integer(r)]] : p \in Matrices(MaxH, MaxW)}

InitSort ==
    \E self \in Matrices(MaxH, MaxW) \cup TaggedMatrices \cup TestMatrices :
        Constructed(self, Matrix_empty)

NextSort == DoLeaderSort \/ DoNormalize

SpecSort == InitSort /\ [][NextSort]_vars

\* Entries of the enumerated square matrices
SquareVals == {from_integer(-1), from_integer(0), from_integer(2)}

SquareMatrices == UNION {[1..n -> [1..n -> SquareVals]] : n \in 1..MaxSquare}

\* One rref() on a square matrix just constructed
InitSquare ==
    \E self \in SquareMatrices \cup {t \in TestMatrices : height(t) = width(t)} :
        Constructed(self, Matrix_empty)

\* m.rref()
RrefOnce == Fresh /\ Call("rref", rref(m), <<>>)

NextSquare == RrefOnce

SpecSquare == InitSquare /\ [][NextSquare]_vars

\* The rows of mat in the order f gives: row r of the result is row f[r]
reorder(mat, f) == [r \in 1..Len(mat) |-> mat[f[r]]]

RowOrders(n) == {f \in [1..n -> 1..n] : \A j \in 1..n, k \in 1..n : f[j] = f[k] => j = k}

\* Two matrices just constructed, the second with the rows of the first in
\* some order
InitOrder ==
    \E self \in Matrices(MaxArH, MaxW) \cup {t \in TestMatrices : height(t) <= MaxH} :
        \E f \in RowOrders(height(self)) : Constructed(self, reorder(self, f))

\* m.rref(), once
RrefSelf == "rref" \notin {op, prevop} /\ Call("rref", rref(m), <<>>)

\* other.rref(), once
RrefOther ==
    /\ "other.rref" \notin {op, prevop}
    /\ LET out == rref(rhs)
       IN  /\ rhs' = out.rows
           /\ ret' = IF out.panic THEN Panic ELSE Unit
    /\ op' = "other.rref"
    /\ prevop' = op
    /\ pre' = rhs
    /\ args' = <<>>
    /\ steps' = steps + 1
    /\ UNCHANGED <<m, bs, dk, tr, it>>

NextOrder == RrefSelf \/ RrefOther

SpecOrder == InitOrder /\ [][NextOrder]_vars

\* One elimination below or above a leader, on a matrix just constructed
InitLeader ==
    \E self \in Matrices(MaxH, MaxElW) \cup TestMatrices : Constructed(self, Matrix_empty)

\* m.eliminate_below_leader(row)
DoEliminateBelowLeader == Fresh /\ EliminateBelowLeaderCall

\* m.eliminate_above_leader(row)
DoEliminateAboveLeader == Fresh /\ EliminateAboveLeaderCall

NextLeader == DoEliminateBelowLeader \/ DoEliminateAboveLeader

SpecLeader == InitLeader /\ [][NextLeader]_vars

\* Matrices the runs of several operations start from
SeqMatrices ==
    { Matrix_empty,
      << <<>> >>,
      FromInts(<<<<2>>>>),
      FromInts(<<<<0, 1>>, <<1, 1>>>>),
      FromInts(<<<<0, 0>>, <<3, -1>>>>),
      << <<Ratio(-1, 2), Ratio(2, 3)>>, <<Ratio(5, 7), Ratio(-1, 3)>> >>,
      FromInts(<<<<0, 1, 2>>, <<3, 4, 5>>>>),
      FromInts(<<<<-2, 3>>, <<4, -6>>, <<-1, -5>>>>),
      FromInts(<<<<1, 2, 3>>, <<4, 5, 6>>, <<7, 8, 9>>>>),
      << <<Ratio(0, 1), Ratio(3, 4), Ratio(3, 2)>>,
         <<Ratio(4, 1), Ratio(5, 1), Ratio(6, 1)>>,
         <<Ratio(0, 1), Ratio(-3, 4), Ratio(-3, 2)>> >> }

\* Up to MaxSteps operations of any kind, one after the other
InitSeq ==
    \E self \in SeqMatrices :
        \E other \in {self, Matrix_empty, FromInts(<<<<1, 1>>>>)} : Constructed(self, other)

NextSeq ==
    \/ DoZeros
    \/ Running /\ AddAssignCall
    \/ Running /\ MulAssignCall
    \/ Running /\ LeaderSortCall
    \/ Running /\ EliminateNonZeroCall
    \/ Running /\ EliminateBelowLeaderCall
    \/ Running /\ EliminateAboveLeaderCall
    \/ Running /\ NormalizeCall
    \/ DoRef
    \/ DoRref
    \/ Running /\ RemoveRowCall
    \/ Running /\ AppendRowCall

SpecSeq == InitSeq /\ [][NextSeq]_vars

\* Entries of the rows that are built exhaustively
RowVals == {from_integer(-1), ZERO, Ratio(1, 2), ONE, from_integer(2)}

\* RowVec::new: rows of at most len entries
Rows(len, vals) == UNION {[1..n -> vals] : n \in 0..len}

\* RowVec::from_int_vec
RowFromInts(v) == [i \in 1..Len(v) |-> from_integer(v[i])]

\* Pairs of rows of the repository's tests
TestRowPairs ==
    { <<RowFromInts(<<1, 2, 3>>), RowFromInts(<<4, 7, 9>>)>>,
      <<RowFromInts(<<1, 2, 3>>), RowFromInts(<<4, 7, 9, 10>>)>>,
      <<RowFromInts(<<7, 5, 9>>), RowFromInts(<<-7, 5, 0>>)>>,
      <<RowFromInts(<<0, 0, 7, 5, 9>>), RowFromInts(<<0, 0, 0, 0, 1>>)>>,
      <<RowFromInts(<<0, 0, 0>>), RowFromInts(<<0, 0, 0>>)>>,
      <<<<Ratio(-3, 4), Ratio(5, 6)>>, <<Ratio(3, 4), Ratio(1, 3)>>>> }

\* One call on every small RowVec
InitRow ==
    \/ \E self \in Rows(MaxRowLen, RowVals), other \in Rows(MaxRowLen, Vals) :
           Constructed(self, other)
    \/ \E p \in TestRowPairs : Constructed(p[1], p[2])

\* the closure is_zeros hands to fold_while: |_, v| { let r = *v == ZERO; (r, r) }
is_zeros_closure(b, v) == LET r == v = ZERO IN <<r, r>>

\* the loop of fold_while going on after a closure call that returned false
RECURSIVE fold_while_no_break(_, _, _, _)
fold_while_no_break(row, b, k, calls) ==
    IF k >= Len(row) THEN [b |-> b, calls |-> calls]
    ELSE fold_while_no_break(row, is_zeros_closure(b, At(row, k))[1], k + 1,
                             Append(calls, k))

\* fold_while over row.iter() from index k on with the closure of is_zeros:
\* the accumulator returned and the indices the closure was called with
RECURSIVE fold_while(_, _, _, _)
fold_while(row, b, k, calls) ==
    IF k >= Len(row) THEN [b |-> b, calls |-> calls]
    ELSE LET out == is_zeros_closure(b, At(row, k))
         IN  IF ~out[2] THEN [b |-> out[1], calls |-> Append(calls, k)]
             ELSE fold_while(row, out[1], k + 1, Append(calls, k))

\* RowVec::is_zeros
RowVec_is_zeros(self) == fold_while(self, TRUE, 0, <<>>)

\* m.is_zeros() on a RowVec m; ret.val holds the value returned and the
\* indices of the entries the closure examined
DoRowIsZeros ==
    /\ Fresh
    /\ LET out == RowVec_is_zeros(m)
       IN  ret' = [kind |-> "Ok", val |-> <<out.b, out.calls>>]
    /\ op' = "RowVec::is_zeros"
    /\ prevop' = op
    /\ pre' = m
    /\ args' = <<>>
    /\ steps' = steps + 1
    /\ UNCHANGED <<m, rhs, bs, dk, tr, it>>

NextRow == DoRowAddAssign \/ DoRowNormalize \/ DoRowIsZeros

SpecRow == InitRow /\ [][NextRow]_vars

\* ------------------------------------------- binary_search.rs (src/src)
\* BinarySearchableVec::get_val: self.v[*index]
get_val(self, index) == self.v[index + 1]

\* BinarySearchableVec::found_result
found_result(self, val, lower_bound, mid_point, upper_bound) == val = self.t

\* set_next_bounds without the test that ends a search whose midpoint is
\* the lower bound
set_next_bounds_no_abort(self, val, lower_bound, index, upper_bound) ==
    IF val > self.t
    THEN [abort |-> FALSE, panic |-> FALSE, lower_bound |-> lower_bound, upper_bound |-> index]
    ELSE IF val < self.t
    THEN [abort |-> FALSE, panic |-> FALSE, lower_bound |-> index, upper_bound |-> upper_bound]
    ELSE [abort |-> FALSE, panic |-> TRUE, lower_bound |-> lower_bound, upper_bound |-> upper_bound]

\* BinarySearchableVec::set_next_bounds: the returned flag and the two
\* bounds it may have moved; val == t panics ("should be impossible")
set_next_bounds(self, val, lower_bound, index, upper_bound) ==
    IF lower_bound = index
    THEN [abort |-> TRUE, panic |-> FALSE, lower_bound |-> lower_bound, upper_bound |-> upper_bound]
    ELSE IF val > self.t
    THEN [abort |-> FALSE, panic |-> FALSE, lower_bound |-> lower_bound, upper_bound |-> index]
    ELSE IF val < self.t
    THEN [abort |-> FALSE, panic |-> FALSE, lower_bound |-> index, upper_bound |-> upper_bound]
    ELSE [abort |-> FALSE, panic |-> TRUE, lower_bound |-> lower_bound, upper_bound |-> upper_bound]

\* BinarySearchableVec::new(value, target)
BinarySearchableVec_new(value, target) ==
    [pc |-> "new", v |-> value, t |-> target, lower_bound |-> 0, upper_bound |-> 0,
     result |-> None, iterations |-> 0]

\* self.binary_search(0, self.v.len()) is called
BinarySearchCall ==
    /\ bs.pc = "new"
    /\ bs' = [bs EXCEPT !.pc = "loop", !.lower_bound = 0, !.upper_bound = Len(bs.v)]
    /\ UNCHANGED <<matrix_vars, dk, tr, it>>

\* One pass of `while upper_bound > lower_bound`: the test, and the body when
\* the test holds.  Indexing v outside its length panics.
BinarySearchIteration ==
    /\ bs.pc = "loop"
    /\ IF ~(bs.upper_bound > bs.lower_bound)
       THEN bs' = [bs EXCEPT !.pc = "returned", !.result = None]
       ELSE LET mid_point == (bs.lower_bound + bs.upper_bound) \div 2
            IN  IF mid_point >= Len(bs.v)
                THEN bs' = [bs EXCEPT !.pc = "panicked", !.iterations = @ + 1]
                ELSE LET val == get_val(bs, mid_point)
                         next == set_next_bounds(bs, val, bs.lower_bound, mid_point,
                                                 bs.upper_bound)
                     IN  IF found_result(bs, val, bs.lower_bound, mid_point, bs.upper_bound)
                         THEN bs' = [bs EXCEPT !.pc = "returned",
                                               !.result = Some(<<mid_point, val>>),
                                               !.iterations = @ + 1]
                         ELSE IF next.panic
                         THEN bs' = [bs EXCEPT !.pc = "panicked", !.iterations = @ + 1]
                         ELSE IF next.abort
                         THEN bs' = [bs EXCEPT !.pc = "returned", !.result = None,
                                               !.iterations = @ + 1]
                         ELSE bs' = [bs EXCEPT !.lower_bound = next.lower_bound,
                                               !.upper_bound = next.upper_bound,
                                               !.iterations = @ + 1]
    /\ UNCHANGED <<matrix_vars, dk, tr, it>>

\* Every vector of at most MaxVecLen elements of 1..MaxElem, ascending or
\* not, with every target
InitSearch ==
    /\ \E value \in UNION {[1..n -> 1..MaxElem] : n \in 0..MaxVecLen},
          target \in 0..(MaxElem + 1) : bs = BinarySearchableVec_new(value, target)
    /\ Operands(Matrix_empty, Matrix_empty)
    /\ dk = Absent
    /\ tr = Absent
    /\ it = Absent

NextSearch == BinarySearchCall \/ BinarySearchIteration

SpecSearch == InitSearch /\ [][NextSearch]_vars

\* ------------------------------------------------ dijkstra.rs (src/src)
\* The implementor is a graph over the points 0..MaxPoints - 1 with a plain
\* per-point store of distances: neighbours[p] is the sequence of
\* (point, weight) pairs its neighbours() iterator yields for p, impossible
\* the set of points is_impossible() is true for, store[p] what dist(p)
\* returns.  q is the BinaryHeap of dijkstra: a set of <<point, dist>>.
Points == 0..(MaxPoints - 1)

Weights == {0, 1, 3}

StartDists == {0, 2}

\* the pairs (v, w[v]) of a point's neighbours in ascending order of v, from
\* point v on
RECURSIVE neighbour_seq(_, _)
neighbour_seq(w, v) ==
    IF v >= MaxPoints THEN <<>>
    ELSE IF w[v] = None THEN neighbour_seq(w, v + 1)
    ELSE <<<<v, w[v][1]>>>> \o neighbour_seq(w, v + 1)

\* Graphs with an edge in both directions between two points, every weight
UndirectedPairs == {e \in Points \X Points : e[1] < e[2]}

Undirected(weight) ==
    [p \in Points |->
        neighbour_seq([v \in Points |->
                          IF v = p THEN None
                          ELSE IF p < v THEN weight[<<p, v>>] ELSE weight[<<v, p>>]], 0)]

\* Graphs with edges of weight 1 in one direction
DirectedPairs == {e \in Points \X Points : e[1] # e[2]}

Directed(edges) ==
    [p \in Points |->
        neighbour_seq([v \in Points |-> IF <<p, v>> \in edges THEN Some(1) ELSE None], 0)]

Graphs ==
    {Undirected(weight) : weight \in [UndirectedPairs -> {None} \cup {Some(x) : x \in Weights}]}
        \cup {Directed(edges) : edges \in SUBSET DirectedPairs}

\* The implementor before dijkstra is called on it.  set_calls and pushes
\* count, per point, the calls of set_dist and the pushes onto the heap.
Dijkstrable_new(graph, imp, start, start_dist) ==
    [pc |-> "new", neighbours |-> graph, impossible |-> imp,
     start |-> start, start_dist |-> start_dist,
     store |-> [p \in Points |-> None], q |-> {},
     set_calls |-> [p \in Points |-> 0], pushes |-> [p \in Points |-> 0]]

\* the loop over the neighbours without the test of dist(n.0).is_none()
RECURSIVE visit_neighbours_unchecked(_, _, _, _)
visit_neighbours_unchecked(self, st, curr, i) ==
    LET ns == self.neighbours[curr[1]]
    IN  IF i > Len(ns) THEN st
        ELSE LET n == ns[i]
                 d == IF n[1] \in self.impossible THEN None ELSE Some(curr[2] + n[2])
             IN  IF d # None
                 THEN visit_neighbours_unchecked(self,
                          [store |-> [st.store EXCEPT ![n[1]] = d],
                           q |-> st.q \cup {<<n[1], d[1]>>},
                           set_calls |-> [st.set_calls EXCEPT ![n[1]] = @ + 1],
                           pushes |-> [st.pushes EXCEPT ![n[1]] = @ + 1]],
                          curr, i + 1)
                 ELSE visit_neighbours_unchecked(self, st, curr, i + 1)

\* for n in neighbours(curr.point()): the store, the heap and the two
\* counts after the neighbours from position i on are looked at
RECURSIVE visit_neighbours(_, _, _, _)
visit_neighbours(self, st, curr, i) ==
    LET ns == self.neighbours[curr[1]]
    IN  IF i > Len(ns) THEN st
        ELSE LET n == ns[i]
                 d == IF n[1] \in self.impossible THEN None ELSE Some(curr[2] + n[2])
             IN  IF d # None /\ st.store[n[1]] = None
                 THEN visit_neighbours(self,
                          [store |-> [st.store EXCEPT ![n[1]] = d],
                           q |-> st.q \cup {<<n[1], d[1]>>},
                           set_calls |-> [st.set_calls EXCEPT ![n[1]] = @ + 1],
                           pushes |-> [st.pushes EXCEPT ![n[1]] = @ + 1]],
                          curr, i + 1)
                 ELSE visit_neighbours(self, st, curr, i + 1)

\* self.dijkstra(start, start_dist, bounds) is called: the start is pushed
DijkstraCall ==
    /\ dk.pc = "new"
    /\ dk' = [dk EXCEPT !.pc = "loop", !.q = {<<dk.start, dk.start_dist>>},
                        !.pushes[dk.start] = @ + 1]
    /\ UNCHANGED <<matrix_vars, bs, tr, it>>

\* One pass of `while !q.is_empty()`: the test, and when the heap has
\* elements the pop of one of those with the least dist (PqElement compares
\* by dist alone, so which of several the heap hands out is not fixed) and
\* the loop over its neighbours.
DijkstraIteration ==
    /\ dk.pc = "loop"
    /\ IF dk.q = {}
       THEN dk' = [dk EXCEPT !.pc = "returned"]
       ELSE \E curr \in dk.q :
                /\ \A e \in dk.q : curr[2] <= e[2]
                /\ LET out == visit_neighbours(dk,
                                  [store |-> dk.store, q |-> dk.q \ {curr},
                                   set_calls |-> dk.set_calls, pushes |-> dk.pushes],
                                  curr, 1)
                   IN  dk' = [dk EXCEPT !.store = out.store, !.q = out.q,
                                        !.set_calls = out.set_calls,
                                        !.pushes = out.pushes]
    /\ UNCHANGED <<matrix_vars, bs, tr, it>>

\* Every small graph, start point and start distance
InitDijkstra ==
    /\ \E graph \in Graphs, imp \in SUBSET {MaxPoints - 1},
          start \in Points, start_dist \in StartDists :
           dk = Dijkstrable_new(graph, imp, start, start_dist)
    /\ Operands(Matrix_empty, Matrix_empty)
    /\ bs = Absent
    /\ tr = Absent
    /\ it = Absent

NextDijkstra == DijkstraCall \/ DijkstraIteration

SpecDijkstra == InitDijkstra /\ [][NextDijkstra]_vars

\* Every small graph, searched from point 0 at distance 0
InitDijkstraLive ==
    /\ \E graph \in Graphs, imp \in SUBSET {MaxPoints - 1} :
           dk = Dijkstrable_new(graph, imp, 0, 0)
    /\ Operands(Matrix_empty, Matrix_empty)
    /\ bs = Absent
    /\ tr = Absent
    /\ it = Absent

\* dijkstra is straight-line code in one thread: a call that has begun goes
\* on with its next pass of the loop
SpecDijkstraLive == InitDijkstraLive /\ [][NextDijkstra]_vars /\ WF_vars(NextDijkstra)

\* ---------------------------------------------------- trie.rs (src/src)
\* A word (&str) is a sequence of chars; a char takes utf8_len bytes.  A Trie
\* is the function from the path of chars leading to a node to that node's
\* prefix and is_terminal fields: the children map of a node holds c exactly
\* when the node's path followed by c is in the function's domain.
\* "e-acute" stands for U+00E9, two bytes in UTF-8
Chars == {"a", "b", "e-acute"}

utf8_len(c) == IF c \in {"a", "b"} THEN 1 ELSE 2

RECURSIVE byte_len(_)
byte_len(word) ==
    IF word = <<>> THEN 0
    ELSE byte_len(SubSeq(word, 1, Len(word) - 1)) + utf8_len(word[Len(word)])

\* &word[..=i]: the bytes 0..=i of the word.  The slice panics when byte
\* i + 1 is past the end or is not the first byte of a char.
str_slice_to_inclusive(word, i) ==
    LET cuts == {j \in 0..Len(word) : byte_len(SubSeq(word, 1, j)) = i + 1}
    IN  IF cuts = {} THEN [panic |-> TRUE, str |-> <<>>]
        ELSE [panic |-> FALSE, str |-> SubSeq(word, 1, CHOOSE j \in cuts : TRUE)]

\* Trie::with_prefix
with_prefix(str, is_terminal) == [prefix |-> str, is_terminal |-> is_terminal]

\* Trie::new
Trie_new == (<<>> :> with_prefix(<<>>, TRUE))

\* The loop of Trie::insert from char i on.  entry(c).and_modify(..) runs
\* first, then the argument of or_insert is evaluated (the slice, which
\* can panic), then or_insert stores the node when the child is missing.
RECURSIVE insert_from(_, _, _)
insert_from(nodes, word, i) ==
    IF i >= Len(word) THEN [nodes |-> nodes, panic |-> FALSE]
    ELSE LET is_terminal == i = Len(word) - 1
             child == SubSeq(word, 1, i + 1)
             modified == IF child \in DOMAIN nodes
                         THEN [nodes EXCEPT ![child].is_terminal = @ \/ is_terminal]
                         ELSE nodes
             slice == str_slice_to_inclusive(word, i)
         IN  IF slice.panic THEN [nodes |-> modified, panic |-> TRUE]
             ELSE IF child \in DOMAIN nodes
             THEN insert_from(modified, word, i + 1)
             ELSE insert_from(modified @@ (child :> with_prefix(slice.str, is_terminal)),
                              word, i + 1)

\* Trie::insert
Trie_insert(nodes, word) == insert_from(nodes, word, 0)

\* Trie::find from char i on: None, or Some(path of the node found)
RECURSIVE find_from(_, _, _)
find_from(nodes, word, i) ==
    IF i >= Len(word) THEN Some(word)
    ELSE IF SubSeq(word, 1, i + 1) \notin DOMAIN nodes THEN None
    ELSE find_from(nodes, word, i + 1)

\* Trie::find
Trie_find(nodes, word) == find_from(nodes, word, 0)

\* Trie::contains
Trie_contains(nodes, word) ==
    LET node == Trie_find(nodes, word)
    IN  IF node = None THEN FALSE ELSE nodes[node[1]].is_terminal

Words(len) == UNION {[1..n -> Chars] : n \in 0..len}

\* self.insert(word)
TrieInsert ==
    /\ tr.pc = "ready"
    /\ tr.calls < MaxInserts
    /\ \E word \in Words(MaxWordLen) :
           LET out == Trie_insert(tr.nodes, word)
           IN  tr' = [tr EXCEPT !.pc = IF out.panic THEN "panicked" ELSE "ready",
                                !.nodes = out.nodes,
                                !.inserted = @ \cup {word},
                                !.calls = @ + 1]
    /\ UNCHANGED <<matrix_vars, bs, dk, it>>

\* self.contains(word)
TrieContains ==
    /\ tr.pc = "ready"
    /\ \E word \in Words(MaxWordLen) :
           tr' = [tr EXCEPT !.asked = Some(word),
                            !.answer = Trie_contains(tr.nodes, word)]
    /\ UNCHANGED <<matrix_vars, bs, dk, it>>

\* let mut t = Trie::new()
InitTrie ==
    /\ tr = [pc |-> "ready", nodes |-> Trie_new, inserted |-> {}, calls |-> 0,
             asked |-> None, answer |-> FALSE]
    /\ Operands(Matrix_empty, Matrix_empty)
    /\ bs = Absent
    /\ dk = Absent
    /\ it = Absent

NextTrie == TrieInsert \/ TrieContains

SpecTrie == InitTrie /\ [][NextTrie]_vars

\* ------------------------------------------ iter.rs, lib.rs (src/src)
\* Vec and slice indices are 0-based in the source: x[i] is At(x, i).
swap(a, i, j) == [a EXCEPT ![i + 1] = a[j + 1], ![j + 1] = a[i + 1]]

\* the loop with the two kinds of swap exchanged
RECURSIVE permutation_loop_parity_swapped(_, _, _, _)
permutation_loop_parity_swapped(a, c, i, n) ==
    IF ~(i < n) THEN [item |-> None, a |-> a, c |-> c, i |-> i]
    ELSE IF At(c, i) < i
    THEN LET swapped == IF i % 2 = 0 THEN swap(a, At(c, i), i) ELSE swap(a, 0, i)
         IN  [item |-> Some(swapped), a |-> swapped,
              c |-> [c EXCEPT ![i + 1] = @ + 1], i |-> 1]
    ELSE permutation_loop_parity_swapped(a, [c EXCEPT ![i + 1] = 0], i + 1, n)

\* `while i < n { .. }` of the closure of permutation_iter_copy, up to its
\* return: the item returned and the captured a, c and i afterwards
RECURSIVE permutation_loop(_, _, _, _)
permutation_loop(a, c, i, n) ==
    IF ~(i < n) THEN [item |-> None, a |-> a, c |-> c, i |-> i]
    ELSE IF At(c, i) < i
    THEN LET swapped == IF i % 2 = 0 THEN swap(a, 0, i) ELSE swap(a, At(c, i), i)
         IN  [item |-> Some(swapped), a |-> swapped,
              c |-> [c EXCEPT ![i + 1] = @ + 1], i |-> 1]
    ELSE permutation_loop(a, [c EXCEPT ![i + 1] = 0], i + 1, n)

\* permutation_iter_copy(a): the iterator before its first next()
permutation_iter_copy(a) ==
    [kind |-> "permutation", input |-> a, a |-> a, n |-> Len(a),
     c |-> [k \in 1..Len(a) |-> 0], first |-> TRUE, i |-> 1,
     yielded |-> <<>>, ended |-> FALSE]

\* next() on the permutation iterator: one call of the closure
PermutationNext ==
    /\ it.kind = "permutation" /\ ~it.ended
    /\ IF it.first
       THEN it' = [it EXCEPT !.first = FALSE, !.yielded = Append(@, it.a)]
       ELSE LET out == permutation_loop(it.a, it.c, it.i, it.n)
            IN  it' = [it EXCEPT !.a = out.a, !.c = out.c, !.i = out.i,
                                 !.yielded = IF out.item = None THEN @
                                             ELSE Append(@, out.item[1]),
                                 !.ended = out.item = None]
    /\ UNCHANGED <<matrix_vars, bs, dk, tr>>

\* the loop flipping from index 0 upwards
RECURSIVE flip_from_front(_, _)
flip_from_front(v, k) ==
    LET flipped == [v EXCEPT ![k + 1] = ~@]
    IN  IF At(flipped, k) THEN flipped
        ELSE IF k + 1 >= Len(v) THEN flipped
        ELSE flip_from_front(flipped, k + 1)

\* `loop { .. }` of inc_selector from index last downwards
RECURSIVE flip_from(_, _)
flip_from(v, last) ==
    LET flipped == [v EXCEPT ![last + 1] = ~@]
    IN  IF At(flipped, last) THEN flipped
        ELSE IF last = 0 THEN flipped
        ELSE flip_from(flipped, last - 1)

\* inc_selector counting with index 0 as the least significant place
inc_selector_from_front(v) ==
    IF Cardinality({k \in 1..Len(v) : v[k]}) = Len(v) THEN [ret |-> TRUE, v |-> v]
    ELSE [ret |-> FALSE, v |-> flip_from_front(v, 0)]

\* inc_selector: the value returned and the slice afterwards
inc_selector(v) ==
    IF Cardinality({k \in 1..Len(v) : v[k]}) = Len(v) THEN [ret |-> TRUE, v |-> v]
    ELSE [ret |-> FALSE, v |-> flip_from(v, Len(v) - 1)]

\* a slice handed to inc_selector
selector_slice(v) == [kind |-> "slice", before |-> v, v |-> v, returned |-> None]

\* inc_selector(&mut v)
IncSelectorCall ==
    /\ it.kind = "slice" /\ it.returned = None
    /\ LET out == inc_selector(it.v)
       IN  it' = [it EXCEPT !.v = out.v, !.returned = Some(out.ret)]
    /\ UNCHANGED <<matrix_vars, bs, dk, tr>>

\* selector_iter(len): the iterator before its first next()
selector_iter(len) ==
    [kind |-> "selector", len |-> len, v |-> [k \in 1..len |-> FALSE], first |-> TRUE,
     yielded |-> <<>>, ended |-> FALSE]

\* next() on the selector iterator: one call of the closure
SelectorNext ==
    /\ it.kind = "selector" /\ ~it.ended
    /\ IF it.first
       THEN it' = [it EXCEPT !.first = FALSE, !.yielded = Append(@, it.v)]
       ELSE LET out == inc_selector(it.v)
            IN  it' = [it EXCEPT !.v = out.v,
                                 !.yielded = IF out.ret THEN @ ELSE Append(@, out.v),
                                 !.ended = out.ret]
    /\ UNCHANGED <<matrix_vars, bs, dk, tr>>

\* Vectors of pairwise distinct elements of 1..MaxPermLen
DistinctVecs ==
    UNION {{a \in [1..n -> 1..MaxPermLen] : \A j \in 1..n, k \in 1..n : a[j] = a[k] => j = k} :
           n \in 0..MaxPermLen}

\* One iterator, or one slice, per run
InitIter ==
    /\ \/ \E a \in DistinctVecs \cup {<<1, 1>>, <<2, 1, 2>>} : it = permutation_iter_copy(a)
       \/ \E len \in 0..MaxSelLen : it = selector_iter(len)
       \/ \E v \in UNION {[1..n -> BOOLEAN] : n \in 0..MaxSelLen} : it = selector_slice(v)
    /\ Operands(Matrix_empty, Matrix_empty)
    /\ bs = Absent
    /\ dk = Absent
    /\ tr = Absent

NextIter == PermutationNext \/ SelectorNext \/ IncSelectorCall

SpecIter == InitIter /\ [][NextIter]_vars

\* ------------------------------------------------------------- properties
IsZeroRow(row) == \A i \in 1..Len(row) : row[i] = ZERO
NonZeroRows(mat) == {r \in 1..Len(mat) : ~IsZeroRow(mat[r])}
Leader(row) == leader_col(row)[1]
Rectangular(mat) == \A r \in 1..Len(mat) : Len(mat[r]) = Len(mat[1])

\* C1: calling rref() a second time returns normally and leaves the matrix
\* exactly equal to the result of the first rref() call.
C1_RrefIdempotent ==
    (op = "rref" /\ prevop = "rref") => (ret = Unit /\ m = pre)

\* rref was called twice and the first call changed a matrix that has both a
\* non-zero and an all-zero row once reduced
C1_Witness ==
    /\ op = "rref" /\ prevop = "rref" /\ steps = 2
    /\ height(m) >= 2
    /\ NonZeroRows(m) # {}
    /\ \E r \in 1..Len(m) : IsZeroRow(m[r])

\* C2: after ref(), the leader columns of the non-zero rows strictly increase
\* from top to bottom and every all-zero row lies below every non-zero row.
C2_EchelonOrder ==
    op = "ref" =>
        /\ ret = Unit
        /\ \A i, j \in NonZeroRows(m) : i < j => Leader(m[i]) < Leader(m[j])
        /\ \A i, j \in 1..Len(m) : (IsZeroRow(m[i]) /\ ~IsZeroRow(m[j])) => j < i

\* ref() reordered and changed a matrix into two non-zero rows above a zero row
C2_Witness ==
    /\ op = "ref" /\ m # pre
    /\ Cardinality(NonZeroRows(m)) >= 2
    /\ \E r \in 1..Len(m) : IsZeroRow(m[r])
    /\ leader_sort(pre) # pre

\* C3: after rref(), every non-zero row's entry at its own leader column is
\* exactly the rational 1.
C3_LeadersAreOne ==
    op = "rref" =>
        \A r \in NonZeroRows(m) : At(m[r], Leader(m[r])) = ONE

\* rref() produced two leaders out of rows none of which led with 1
C3_Witness ==
    /\ op = "rref" /\ prevop = "new"
    /\ Cardinality(NonZeroRows(m)) >= 2
    /\ \A r \in NonZeroRows(pre) : At(pre[r], Leader(pre[r])) # ONE
    /\ \E r \in NonZeroRows(m) : \E i \in 1..Len(m[r]) : m[r][i][2] # 1

\* C4: after rref(), for every non-zero row r with leader column c, every
\* other row, above and below r, has entry exactly 0 in column c.
C4_LeaderColumnsCleared ==
    op = "rref" =>
        \A r \in NonZeroRows(m) : \A i \in 1..Len(m) :
            i # r => At(m[i], Leader(m[r])) = ZERO

\* rref() cleared a column above a leader: the row above the second leader
\* had a non-zero entry there in the input's echelon form
C4_Witness ==
    /\ op = "rref" /\ prevop = "new"
    /\ Cardinality(NonZeroRows(m)) >= 2
    /\ LET e == ref(pre).rows
       IN  \E r \in NonZeroRows(e) : \E i \in 1..(r - 1) :
               At(e[i], Leader(e[r])) # ZERO

\* Sum over k of A[(j, k)] * B[(k, i)], taken from the last column backwards
RECURSIVE DotProduct(_, _, _, _, _)
DotProduct(A, B, j, i, k) ==
    IF k = 0 THEN ZERO
    ELSE RAdd(RMul(A[j][k], B[k][i]), DotProduct(A, B, j, i, k - 1))

Identity(n) == [r \in 1..n |-> [c \in 1..n |-> IF r = c THEN ONE ELSE ZERO]]

\* the operands of add_assign do not fit: other height, or other width
AddMismatch(A, B) ==
    \/ height(A) # height(B)
    \/ height(A) = height(B) /\ height(A) # 0 /\ width(A) # width(B)

\* C5: when the heights differ, or are equal and non-zero while the widths
\* differ, A.add_assign(&B) returns Err and A equals its value before the call.
C5_AddAssignMismatch ==
    (op = "add_assign" /\ AddMismatch(pre, rhs)) => (ret.kind = "Err" /\ m = pre)

\* add_assign refused operands of equal height and different widths, the
\* left one having non-zero entries
C5_Witness ==
    /\ op = "add_assign" /\ ret.kind = "Err"
    /\ height(pre) = height(rhs) /\ height(pre) = 2 /\ width(pre) = 2 /\ width(rhs) = 1
    /\ \A r \in 1..2 : \A c \in 1..2 : pre[r][c] # ZERO
    /\ \A r \in 1..2 : rhs[r][1] # ZERO

MulCompatible(A, B) == height(A) >= 1 /\ height(B) >= 1 /\ width(A) = height(B)

\* C6 as claimed: for A and B of height at least 1 with A.width() ==
\* B.height(), matrix_mul returns Ok(C) with C.height() == A.height(),
\* C.width() == B.width() and every entry the dot product of A's row and B's
\* column.
C6_MulShapeAndEntries ==
    (op = "matrix_mul" /\ MulCompatible(pre, rhs)) =>
        /\ ret.kind = "Ok"
        /\ height(ret.val) = height(pre)
        /\ width(ret.val) = width(rhs)
        /\ \A j \in 1..height(pre) : \A i \in 1..width(rhs) :
               ret.val[j][i] = DotProduct(pre, rhs, j, i, width(pre))

\* C6 amended: as C6 when B.width() >= 1; when B's rows have width 0 the
\* result is Ok of the empty matrix (height 0).
C6_MulShapeAndEntriesNonEmptyRows ==
    (op = "matrix_mul" /\ MulCompatible(pre, rhs)) =>
        /\ ret.kind = "Ok"
        /\ width(rhs) = 0 => ret.val = Matrix_empty
        /\ width(rhs) >= 1 =>
               /\ height(ret.val) = height(pre)
               /\ Rectangular(ret.val)
               /\ width(ret.val) = width(rhs)
               /\ \A j \in 1..height(pre) : \A i \in 1..width(rhs) :
                      ret.val[j][i] = DotProduct(pre, rhs, j, i, width(pre))

\* matrix_mul multiplied a 3-by-2 matrix by a 2-by-4 matrix, both without
\* zero entries
C6_Witness ==
    /\ op = "matrix_mul" /\ ret.kind = "Ok"
    /\ height(pre) = 3 /\ width(pre) = 2 /\ height(rhs) = 2 /\ width(rhs) = 4
    /\ \A r \in 1..3 : \A c \in 1..2 : pre[r][c] # ZERO
    /\ \A r \in 1..2 : \A c \in 1..4 : rhs[r][c] # ZERO
    /\ height(ret.val) = 3 /\ width(ret.val) = 4

\* C7: matrix_mul returns Err, without panicking, whenever exactly one
\* operand is empty, and whenever both have height at least 1 and
\* self.width() != rhs.height(); rows of width 0 included.
C7_MulMismatchIsErr ==
    (/\ op = "matrix_mul"
     /\ \/ is_empty(pre) # is_empty(rhs)
        \/ height(pre) >= 1 /\ height(rhs) >= 1 /\ width(pre) # height(rhs))
    => ret.kind = "Err"

\* C8: for M with at least one row and one column and I the identity matrix
\* of M's width, M.matrix_mul(&I) returns Ok of a matrix equal to M.
C8_MulIdentity ==
    (/\ op = "matrix_mul"
     /\ height(pre) >= 1 /\ width(pre) >= 1
     /\ rhs = Identity(width(pre)))
    => ret = [kind |-> "Ok", val |-> pre]

\* matrix_mul multiplied a 2-by-2 matrix with two different rows, neither of
\* them constant, by the 2-by-2 identity
C8_Witness ==
    /\ op = "matrix_mul" /\ rhs = Identity(2)
    /\ height(pre) = 2 /\ width(pre) = 2
    /\ pre[1] # pre[2] /\ pre[1][1] # pre[1][2] /\ pre[2][1] # pre[2][2]
    /\ ret.val = pre

\* C9: with the selected row's entry at leader_col non-zero, eliminate returns
\* normally, the entry at (other_row, leader_col) is exactly 0, row other_row
\* is its old value plus (-old_other[leader_col] / selected[leader_col]) times
\* the selected row, every other row is unchanged, and the whole matrix is
\* unchanged when the entry at (other_row, leader_col) was already 0.
C9_EliminateEffect ==
    (op = "eliminate" /\ At2(pre, args[1], args[3]) # ZERO) =>
        LET s == args[1] + 1
            o == args[2] + 1
            c == args[3] + 1
            factor == RDiv(RNeg(pre[o][c]), pre[s][c])
        IN  /\ ret = Unit
            /\ m[o][c] = ZERO
            /\ Len(m) = Len(pre) /\ Len(m[o]) = Len(pre[o])
            /\ \A i \in 1..Len(pre[o]) :
                   m[o][i] = RAdd(pre[o][i], RMul(factor, pre[s][i]))
            /\ \A r \in 1..Len(pre) : r # o => m[r] = pre[r]
            /\ pre[o][c] = ZERO => m = pre

\* eliminate changed a row by a factor that is not an integer
C9_Witness ==
    /\ op = "eliminate" /\ ret = Unit /\ m # pre
    /\ args[1] # args[2]
    /\ At2(pre, args[1], args[3]) # ZERO
    /\ RDiv(At2(pre, args[2], args[3]), At2(pre, args[1], args[3]))[2] # 1

\* C10 as claimed: eliminate with a zero entry at (selected_row, leader_col)
\* always panics, whatever the other row contains.
C10_ZeroPivotPanics ==
    (op = "eliminate" /\ At2(pre, args[1], args[3]) = ZERO) => ret.kind = "Panic"

\* C10 amended: with a zero entry at (selected_row, leader_col), eliminate
\* panics when the entry at (other_row, leader_col) is non-zero, and returns
\* normally leaving the matrix unchanged when that entry is zero as well.
C10_ZeroPivotPanicsUnlessEliminated ==
    (op = "eliminate" /\ At2(pre, args[1], args[3]) = ZERO) =>
        IF At2(pre, args[2], args[3]) # ZERO
        THEN ret.kind = "Panic"
        ELSE ret = Unit /\ m = pre

\* eliminate panicked on a zero pivot
C10_Witness ==
    /\ op = "eliminate" /\ ret.kind = "Panic"
    /\ At2(pre, args[1], args[3]) = ZERO
    /\ At2(pre, args[2], args[3]) # ZERO

\* C11: on every rectangular matrix ref() and rref() run to completion
\* without panicking: no elimination of the sweeps divides by a zero pivot
\* and no row addition inside eliminate returns an error.
C11_ReduceNeverPanics ==
    (op \in {"ref", "rref"} /\ Rectangular(pre)) => ret = Unit

\* rref returned normally on a matrix of three rows whose sweeps had rows to
\* clear: two rows share their leader column and the result differs from the
\* sorted input
C11_Witness ==
    /\ op = "rref" /\ ret = Unit /\ steps = 1
    /\ height(pre) = 3 /\ width(pre) = 3
    /\ \E r \in 1..3, q \in 1..3 :
           /\ r # q /\ ~IsZeroRow(pre[r]) /\ ~IsZeroRow(pre[q])
           /\ Leader(pre[r]) = Leader(pre[q])
    /\ m # leader_sort(pre)

\* C14: ref() and rref() called on the empty matrix return normally and
\* leave it equal to the empty matrix.
C14_ReduceEmpty ==
    (op \in {"ref", "rref"} /\ pre = Matrix_empty) => (ret = Unit /\ m = Matrix_empty)

\* both ref and rref were called on the empty matrix
C14_Witness ==
    /\ op = "ref" /\ prevop = "rref" /\ steps = 2
    /\ pre = Matrix_empty /\ m = Matrix_empty /\ height(m) = 0

\* C12: after leader_sort() the leader columns of the non-zero rows are
\* non-decreasing from top to bottom and every all-zero row is below every
\* non-zero row.
C12_LeaderSortOrder ==
    (op = "leader_sort" /\ Rectangular(pre)) =>
        /\ ret = Unit
        /\ \A r \in 1..Len(m), q \in 1..Len(m) :
               r < q =>
                   /\ IsZeroRow(m[r]) => IsZeroRow(m[q])
                   /\ (~IsZeroRow(m[r]) /\ ~IsZeroRow(m[q])) =>
                          Leader(m[r]) <= Leader(m[q])

\* leader_sort moved rows of a matrix that has an all-zero row above a
\* non-zero one and two non-zero rows with their leaders out of order
C12_Witness ==
    /\ op = "leader_sort" /\ m # pre
    /\ \E r \in 1..Len(pre), q \in 1..Len(pre) :
           r < q /\ IsZeroRow(pre[r]) /\ ~IsZeroRow(pre[q])
    /\ \E r \in 1..Len(pre), q \in 1..Len(pre) :
           /\ r < q /\ ~IsZeroRow(pre[r]) /\ ~IsZeroRow(pre[q])
           /\ Leader(pre[r]) > Leader(pre[q])

\* C13: Matrix::zeros(rows, cols) returns the empty matrix (height 0) when
\* rows or cols is 0, and otherwise a matrix of exactly `rows` rows of
\* exactly `cols` entries, every entry zero.
C13_ZerosShape ==
    op = "zeros" =>
        LET rows == args[1]
            cols == args[2]
        IN  /\ ret = Unit
            /\ (rows = 0 \/ cols = 0) => (m = Matrix_empty /\ height(m) = 0)
            /\ (rows # 0 /\ cols # 0) =>
                   /\ height(m) = rows
                   /\ \A r \in 1..Len(m) :
                          Len(m[r]) = cols /\ \A c \in 1..cols : m[r][c] = ZERO

\* zeros was called for two rows without columns on a matrix variable that
\* held rows before, and returned the matrix of height 0
C13_Witness ==
    /\ op = "zeros" /\ args = <<2, 0>>
    /\ height(pre) > 0 /\ m = Matrix_empty /\ height(m) = 0

\* C18: starting from a rectangular matrix, after any sequence of
\* add_assign (successful or failing), scalar multiplication, leader_sort,
\* eliminate with a non-zero pivot, eliminate_below_leader,
\* eliminate_above_leader, normalize, ref, rref, remove_row with a valid
\* index and append_row with a row of length width(), every row of the
\* matrix has the same length; and leader_sort, eliminate, normalize, ref
\* and rref leave height() and width() unchanged.
C18_StaysRectangular ==
    /\ Rectangular(m)
    /\ op \in {"leader_sort", "eliminate", "normalize", "ref", "rref"} =>
           (height(m) = height(pre) /\ width(m) = width(pre))

\* a row was appended to a matrix of two rows and two columns and rref then
\* changed the three rows
C18_Witness ==
    /\ op = "rref" /\ prevop = "append_row" /\ steps = 2
    /\ height(m) = 3 /\ width(m) = 2 /\ m # pre

SameShape(A, B) ==
    /\ height(A) >= 1 /\ width(A) >= 1
    /\ height(A) = height(B) /\ width(A) = width(B)

IsEntrywiseSum(C, A, B) ==
    /\ height(C) = height(A) /\ width(C) = width(A) /\ Rectangular(C)
    /\ \A r \in 1..Len(A) : \A c \in 1..Len(A[r]) : C[r][c] = RAdd(A[r][c], B[r][c])

\* C17: for A and B of one shape with at least one row and one column,
\* A.add(&B) returns Ok(C) with C of the same shape and C[(r, c)] ==
\* A[(r, c)] + B[(r, c)], A is unchanged by add, and A.add_assign(&B)
\* returns Ok and leaves A equal to that same C.
C17_AddEntrywise ==
    /\ (op = "add" /\ SameShape(pre, rhs)) =>
           (ret.kind = "Ok" /\ IsEntrywiseSum(ret.val, pre, rhs) /\ m = pre)
    /\ (op = "add_assign" /\ SameShape(pre, rhs)) =>
           (ret.kind = "Ok" /\ IsEntrywiseSum(m, pre, rhs))

\* add returned the sum of two 2x2 matrices with fractional entries, the sum
\* differing from the left operand in every entry
C17_Witness ==
    /\ op = "add" /\ ret.kind = "Ok"
    /\ height(pre) = 2 /\ width(pre) = 2 /\ SameShape(pre, rhs)
    /\ \E r \in 1..2, c \in 1..2 : pre[r][c][2] # 1
    /\ \A r \in 1..2, c \in 1..2 : ret.val[r][c] # pre[r][c]

\* C15: RowVec::add_assign(rhs) returns Err and leaves self unchanged when
\* the two rows have different lengths; when the lengths are equal (both
\* empty included) it returns Ok and each entry i of self becomes
\* old_self[i] + rhs[i].
C15_RowAddAssign ==
    op = "RowVec::add_assign" =>
        /\ Len(pre) # Len(rhs) => (ret.kind = "Err" /\ m = pre)
        /\ Len(pre) = Len(rhs) =>
               /\ ret.kind = "Ok" /\ Len(m) = Len(pre)
               /\ \A i \in 1..Len(pre) : m[i] = RAdd(pre[i], rhs[i])

\* add_assign refused a shorter row with non-zero entries and left a row
\* with negative and fractional entries as it was
C15_Witness ==
    /\ op = "RowVec::add_assign" /\ ret.kind = "Err" /\ m = pre
    /\ Len(pre) = 3 /\ Len(rhs) = 2 /\ \A i \in 1..2 : rhs[i] # ZERO
    /\ \E i \in 1..3 : pre[i][1] < 0
    /\ \E i \in 1..3 : pre[i][2] # 1

\* C16: after RowVec::normalize() on a row that has a leader, the leader
\* entry is exactly 1, every entry equals its old value divided by the old
\* leader value, and leader_col() is the same as before; on an all-zero or
\* empty row normalize() changes nothing.
C16_RowNormalize ==
    op = "RowVec::normalize" =>
        /\ ret = Unit
        /\ leader_col(pre) = None => m = pre
        /\ leader_col(pre) # None =>
               LET l == Leader(pre) + 1
               IN  /\ Len(m) = Len(pre)
                   /\ m[l] = ONE
                   /\ \A i \in 1..Len(pre) : m[i] = RDiv(pre[i], pre[l])
                   /\ leader_col(m) = leader_col(pre)

\* normalize rescaled a row whose leader is neither the first entry nor 1
\* and is followed by a non-zero entry
C16_Witness ==
    /\ op = "RowVec::normalize" /\ m # pre
    /\ leader_col(pre) # None /\ Leader(pre) >= 1
    /\ pre[Leader(pre) + 1] \notin {ONE, from_integer(-1)}
    /\ \E i \in (Leader(pre) + 2)..Len(pre) : pre[i] # ZERO /\ m[i] # pre[i]

StrictlyAscending(v) == \A i \in 1..(Len(v) - 1) : v[i] < v[i + 1]

Occurs(t, v) == \E i \in 1..Len(v) : v[i] = t

\* C20: over a strictly ascending vector v and any target t,
\* binary_search(0, v.len()) terminates (it runs at most v.len() passes of
\* its loop and never panics) and returns Some((i, t)) with v[i] == t when t
\* occurs in v, and None when t does not occur in v.
C20_BinarySearchFinds ==
    (bs.pc # "absent" /\ StrictlyAscending(bs.v)) =>
        /\ bs.pc # "panicked"
        /\ bs.iterations <= Len(bs.v)
        /\ bs.pc = "returned" =>
               /\ Occurs(bs.t, bs.v) =>
                      /\ bs.result # None
                      /\ bs.result[1][2] = bs.t
                      /\ bs.result[1][1] \in 0..(Len(bs.v) - 1)
                      /\ bs.v[bs.result[1][1] + 1] = bs.t
               /\ ~Occurs(bs.t, bs.v) => bs.result = None

\* the search returned the last position of an ascending vector of four
\* elements after more than one pass of the loop
C20_Witness ==
    /\ bs.pc = "returned" /\ StrictlyAscending(bs.v) /\ Len(bs.v) = 4
    /\ bs.result = Some(<<3, bs.t>>) /\ bs.iterations >= 2

\* the least total weight of a path of at most k edges from the start to
\* each point, None where there is no such path
RECURSIVE PathWeights(_, _, _)
PathWeights(g, d, k) ==
    IF k = 0 THEN d
    ELSE PathWeights(g,
             [p \in Points |->
                 LET via == {d[u][1] + g[u][i][2] :
                                <<u, i>> \in {x \in Points \X (1..MaxPoints) :
                                                 /\ x[2] <= Len(g[x[1]])
                                                 /\ g[x[1]][x[2]][1] = p
                                                 /\ d[x[1]] # None}}
                     all == via \cup (IF d[p] = None THEN {} ELSE {d[p][1]})
                 IN  IF all = {} THEN None
                     ELSE Some(CHOOSE x \in all : \A y \in all : x <= y)],
             k - 1)

MinWeight(g, start) ==
    PathWeights(g, [p \in Points |-> IF p = start THEN Some(0) ELSE None], MaxPoints)

\* C19 as claimed: with a plain per-point store, is_impossible false
\* everywhere and non-negative weights, after dijkstra returns dist(p) is
\* start_dist plus the least total weight of a path from start to p, for
\* every reachable point p other than start.
C19_DijkstraShortest ==
    (dk.pc = "returned" /\ dk.impossible = {}) =>
        \A p \in Points \ {dk.start} :
            LET least == MinWeight(dk.neighbours, dk.start)[p]
            IN  least # None => dk.store[p] = Some(dk.start_dist + least[1])

\* C21 as claimed: after any sequence of insert calls on a Trie made by
\* Trie::new(), every call has returned and contains(w) is true exactly when
\* w is the empty string or one of the words handed to insert; so a proper
\* prefix that was never inserted is not contained and no inserted word
\* stops being contained.
C21_TrieContainsInserted ==
    tr.pc # "absent" =>
        /\ tr.pc # "panicked"
        /\ \A w \in Words(MaxWordLen) :
               Trie_contains(tr.nodes, w) <=> (w = <<>> \/ w \in tr.inserted)
        /\ tr.asked # None =>
               (tr.answer <=> (tr.asked[1] = <<>> \/ tr.asked[1] \in tr.inserted))

RECURSIVE Factorial(_)
Factorial(n) == IF n = 0 THEN 1 ELSE n * Factorial(n - 1)

Distinct(a) == \A j \in 1..Len(a), k \in 1..Len(a) : a[j] = a[k] => j = k

\* b has the elements of a, each as often as a has it
IsRearrangement(b, a) ==
    /\ Len(b) = Len(a)
    /\ \A x \in {a[k] : k \in 1..Len(a)} \cup {b[k] : k \in 1..Len(b)} :
           Cardinality({k \in 1..Len(a) : a[k] = x}) = Cardinality({k \in 1..Len(b) : b[k] = x})

\* C22: for a vector a of n pairwise distinct elements
\* permutation_iter_copy(a) yields exactly n! vectors before it ends, the
\* first a itself, each a rearrangement of a, none twice; for n == 0 it
\* yields exactly one empty vector.
C22_PermutationsOnce ==
    (it.kind = "permutation" /\ Distinct(it.input)) =>
        /\ Len(it.yielded) <= Factorial(it.n)
        /\ it.ended => Len(it.yielded) = Factorial(it.n)
        /\ Len(it.yielded) >= 1 => it.yielded[1] = it.input
        /\ \A k \in 1..Len(it.yielded) : IsRearrangement(it.yielded[k], it.input)
        /\ \A j \in 1..Len(it.yielded), k \in 1..Len(it.yielded) :
               it.yielded[j] = it.yielded[k] => j = k
        /\ (it.ended /\ it.n = 0) => it.yielded = <<<<>>>>

\* the iterator over four distinct elements ended after 24 vectors
C22_Witness ==
    /\ it.kind = "permutation" /\ it.ended /\ it.n = 4 /\ Distinct(it.input)
    /\ Len(it.yielded) = 24 /\ it.yielded[24] # it.input

\* the number a slice of booleans stands for, index 0 most significant,
\* taken over its first k entries
RECURSIVE BinaryValue(_, _)
BinaryValue(v, k) ==
    IF k = 0 THEN 0 ELSE 2 * BinaryValue(v, k - 1) + (IF v[k] THEN 1 ELSE 0)

\* C23: inc_selector on an all-true slice (the empty one included) returns
\* true and leaves the slice as it is, otherwise it returns false and the
\* slice becomes its binary successor with index 0 most significant; and
\* selector_iter(len) yields exactly 2^len vectors of length len, in
\* ascending binary order from all-false to all-true, and then ends.
C23_SelectorCounts ==
    /\ (it.kind = "slice" /\ it.returned # None) =>
           IF \A k \in 1..Len(it.before) : it.before[k]
           THEN it.returned = Some(TRUE) /\ it.v = it.before
           ELSE /\ it.returned = Some(FALSE)
                /\ Len(it.v) = Len(it.before)
                /\ BinaryValue(it.v, Len(it.v)) =
                       BinaryValue(it.before, Len(it.before)) + 1
    /\ it.kind = "selector" =>
           /\ Len(it.yielded) <= 2 ^ it.len
           /\ it.ended => Len(it.yielded) = 2 ^ it.len
           /\ \A k \in 1..Len(it.yielded) :
                  /\ Len(it.yielded[k]) = it.len
                  /\ BinaryValue(it.yielded[k], it.len) = k - 1

\* selector_iter(3) ended after the eight vectors from all-false to all-true
C23_Witness ==
    /\ it.kind = "selector" /\ it.ended /\ it.len = 3 /\ Len(it.yielded) = 8
    /\ it.yielded[1] = <<FALSE, FALSE, FALSE>> /\ it.yielded[8] = <<TRUE, TRUE, TRUE>>

\* C24: for a rectangular matrix and a valid row index r whose row has leader
\* column c, eliminate_below_leader(r) leaves entry 0 in column c of every
\* row below r and the rows up to r as they were; eliminate_above_leader(r)
\* leaves entry 0 in column c of every row above r and the rows from r on as
\* they were; when row r is all-zero both leave the whole matrix unchanged.
C24_EliminateFrame ==
    (op \in {"eliminate_below_leader", "eliminate_above_leader"} /\ Rectangular(pre)) =>
        LET r == args[1] + 1
            cleared == IF op = "eliminate_below_leader"
                       THEN (r + 1)..Len(pre) ELSE 1..(r - 1)
        IN  /\ ret = Unit
            /\ Len(m) = Len(pre)
            /\ IF IsZeroRow(pre[r]) THEN m = pre
               ELSE /\ \A i \in cleared : At(m[i], Leader(pre[r])) = ZERO
                    /\ \A i \in (1..Len(pre)) \ cleared : m[i] = pre[i]

\* eliminate_below_leader(0), or else eliminate_above_leader on another row,
\* changed two rows of a three-row matrix
C24_Witness ==
    /\ op \in {"eliminate_below_leader", "eliminate_above_leader"}
    /\ Rectangular(pre) /\ Len(pre) = 3 /\ ~IsZeroRow(pre[args[1] + 1])
    /\ Cardinality({i \in 1..3 : m[i] # pre[i]}) = 2
    /\ (op = "eliminate_below_leader") <=> (args[1] = 0)

\* the columns (1-based) where a row is non-zero
Pattern(row) == {c \in 1..Len(row) : row[c] # ZERO}

\* a and b have different patterns and a is the one that is non-zero at the
\* first column where exactly one of them is
NonZeroFirst(a, b) ==
    \E c \in Pattern(a) \ Pattern(b) :
        \A d \in 1..(c - 1) : (d \in Pattern(a)) <=> (d \in Pattern(b))

\* the rows of mat that have the pattern of row, in the order mat has them
WithPatternOf(mat, row) ==
    LET Same(x) == Pattern(x) = Pattern(row) IN SelectSeq(mat, Same)

\* C25: leader_sort() is stable: rows whose non-zero entries are in exactly
\* the same columns (all-zero rows included) keep their relative order, and
\* of two rows with different patterns the one that is non-zero at the first
\* column where exactly one of them is non-zero comes earlier.
C25_LeaderSortStable ==
    (op = "leader_sort" /\ Rectangular(pre)) =>
        /\ \A r \in 1..Len(pre) : WithPatternOf(m, pre[r]) = WithPatternOf(pre, pre[r])
        /\ \A p \in 1..Len(m), q \in 1..Len(m) : NonZeroFirst(m[p], m[q]) => p < q

\* leader_sort moved a row past two different rows of one pattern, and those
\* two kept their order
C25_Witness ==
    /\ op = "leader_sort" /\ m # pre /\ Len(pre) = 3
    /\ Pattern(pre[1]) = Pattern(pre[2]) /\ pre[1] # pre[2]
    /\ NonZeroFirst(pre[3], pre[1])
    /\ m = <<pre[3], pre[1], pre[2]>>

\* how often a row occurs in a matrix
Occurrences(mat, row) == Cardinality({r \in 1..Len(mat) : mat[r] = row})

\* no row stands above a row that the comparator's order puts before it
InSortedOrder(mat) ==
    \A p \in 1..Len(mat), q \in 1..Len(mat) : p < q => ~NonZeroFirst(mat[q], mat[p])

\* C26: leader_sort() only reorders rows: every row occurs after the call as
\* often as before it, so no entry of a row is changed, and a matrix already
\* in the sorted order (no row above one that the comparator puts before it)
\* is left exactly unchanged.
C26_LeaderSortReorders ==
    op = "leader_sort" =>
        /\ ret = Unit
        /\ Len(m) = Len(pre)
        /\ \A r \in 1..Len(pre) : Occurrences(m, pre[r]) = Occurrences(pre, pre[r])
        /\ InSortedOrder(pre) => m = pre

\* leader_sort moved the last of three different rows to the top, the other
\* two being in the sorted order and of one pattern
C26_Witness ==
    /\ op = "leader_sort" /\ Len(pre) = 3 /\ m # pre
    /\ \A p \in 1..3, q \in 1..3 : pre[p] = pre[q] => p = q
    /\ ~InSortedOrder(pre) /\ InSortedOrder(m) /\ leader_sort(m) = m
    /\ Pattern(pre[1]) = Pattern(pre[2]) /\ ~IsZeroRow(pre[1])

\* mat without its first row and without column c (1-based)
Minor(mat, c) ==
    [r \in 1..(Len(mat) - 1) |->
        [d \in 1..(Len(mat) - 1) |-> IF d < c THEN mat[r + 1][d] ELSE mat[r + 1][d + 1]]]

\* the determinant of a square matrix, expanded along its first row; the
\* sum runs over the columns c..n
RECURSIVE Determinant(_)
RECURSIVE CofactorSum(_, _)
CofactorSum(mat, c) ==
    IF c > Len(mat) THEN ZERO
    ELSE LET term == RMul(mat[1][c], Determinant(Minor(mat, c)))
         IN  RAdd(IF c % 2 = 1 THEN term ELSE RNeg(term), CofactorSum(mat, c + 1))
Determinant(mat) ==
    IF Len(mat) = 0 THEN ONE ELSE CofactorSum(mat, 1)

IsSquare(mat) == Len(mat) >= 1 /\ \A r \in 1..Len(mat) : Len(mat[r]) = Len(mat)

\* C27: rref() leaves a square n-by-n matrix (n >= 1) of non-zero
\* determinant equal to the n-by-n identity matrix, and leaves a square
\* matrix of determinant zero with an all-zero row at the bottom.
C27_SquareRref ==
    (op = "rref" /\ prevop = "new" /\ IsSquare(pre)) =>
        /\ ret = Unit
        /\ IF Determinant(pre) # ZERO THEN m = Identity(Len(pre))
           ELSE Len(m) = Len(pre) /\ IsZeroRow(m[Len(m)])

\* rref() made the identity out of a square matrix without zero entries
\* whose determinant is neither 0 nor 1
C27_Witness ==
    /\ op = "rref" /\ prevop = "new" /\ IsSquare(pre) /\ Len(pre) >= 2
    /\ Determinant(pre) \notin {ZERO, ONE}
    /\ \A r \in 1..Len(pre), c \in 1..Len(pre) : pre[r][c] # ZERO
    /\ m = Identity(Len(pre))

\* C28: the result of rref() does not depend on the order of the input
\* rows: once a rectangular matrix and a matrix with the same rows in
\* another order have both been reduced, the two are exactly equal.
C28_RrefRowOrder ==
    ({op, prevop} = {"rref", "other.rref"} /\ Rectangular(m) /\ Rectangular(rhs)) =>
        (ret = Unit /\ m = rhs)

\* both reduced: three rows of different leaders handed over in two
\* different orders, neither the order rref() leaves them in
C28_Witness ==
    /\ op = "other.rref" /\ prevop = "rref" /\ Len(pre) = 3 /\ m = rhs
    /\ Cardinality(NonZeroRows(m)) = 3
    /\ ~InSortedOrder(pre)
    /\ \E f \in RowOrders(3) :
           /\ \E r \in 1..3 : f[r] # r
           /\ ~InSortedOrder(reorder(pre, f))
           /\ rref(reorder(pre, f)).rows = m
           /\ reorder(pre, f) # pre

\* C29: RowVec::is_zeros() returns true exactly when every entry is zero
\* (true for the empty row), which is exactly when leader_col() is None; the
\* entries are examined from left to right and none after the first
\* non-zero one, fold_while calling its closure no more once it has
\* returned false as its continue flag.
C29_IsZerosShortCircuit ==
    op = "RowVec::is_zeros" =>
        LET result == ret.val[1]
            calls == ret.val[2]
            examined == IF leader_col(pre) = None THEN Len(pre) ELSE Leader(pre) + 1
        IN  /\ m = pre
            /\ result <=> IsZeroRow(pre)
            /\ result <=> (leader_col(pre) = None)
            /\ calls = [i \in 1..examined |-> i - 1]
            /\ \A i \in 1..(Len(calls) - 1) : At(pre, calls[i]) = ZERO

\* is_zeros returned false after two entries of a row of three, the last of
\* them non-zero as well
C29_Witness ==
    /\ op = "RowVec::is_zeros" /\ Len(pre) = 3
    /\ ret.val = <<FALSE, <<0, 1>>>>
    /\ pre[1] = ZERO /\ pre[2] # ZERO /\ pre[3] # ZERO

\* C30: over a finite graph, cycles allowed, with dist/set_dist a plain
\* store per point, dijkstra always terminates: set_dist is called at most
\* once per point, every point is pushed at most once by discovery and the
\* start once more by the first push, and the heap is empty in the end.
C30_DijkstraTerminates ==
    /\ [](dk.pc # "absent" =>
              \A p \in Points :
                  /\ dk.set_calls[p] <= 1
                  /\ dk.pushes[p] <= (IF p = dk.start THEN 2 ELSE 1)
                  /\ dk.pushes[p] <= dk.set_calls[p] + (IF p = dk.start THEN 1 ELSE 0))
    /\ <>(dk.pc = "returned" /\ dk.q = {})

\* dijkstra returned on a graph with a cycle through the start: every point
\* was set once and the start pushed twice
C30_Witness ==
    /\ dk.pc = "returned" /\ dk.q = {} /\ dk.impossible = {}
    /\ \A p \in Points : dk.set_calls[p] = 1
    /\ dk.pushes[dk.start] = 2
    /\ \A p \in Points : \E k \in 1..Len(dk.neighbours[p]) :
           dk.neighbours[p][k][1] = (p + 1) % MaxPoints
====
